---- MODULE Spec2Model ----
(***************************************************************************)
(* Model of SIH/flask_shipping_optimizer.py: the depth-limited simple-path *)
(* enumeration (enumerate_simple_paths), the cost/time scoring             *)
(* (path_cost_and_time) and the two request handlers (optimize,            *)
(* api_optimize) over the configured port network.                         *)
(*                                                                         *)
(* Numbers.  The program computes in binary floating point.  The model     *)
(* uses fixed point: distances are whole kilometres (haversine_km of the   *)
(* PORTS coordinates, rounded), money is in hundredths of a currency unit, *)
(* time in hundredths of an hour, fuel price in hundredths per km and      *)
(* vessel capacity in whole tons.  round(x, 2) becomes rounding to the     *)
(* nearest hundredth, ties to even, as Python's round does.                *)
(*                                                                         *)
(* Strings.  A string of the form field `overrides` is a sequence of       *)
(* one-character strings, so that split, strip, upper and float are        *)
(* modelled by what they do to the characters.  Port codes stay TLA+       *)
(* strings; Chars gives the characters of a code.                          *)
(***************************************************************************)
EXTENDS Integers, Sequences, FiniteSets, TLC

VARIABLES
    pc,             \* position: "start" | "run" | "done"
    \* ---- the generator frame of enumerate_simple_paths
    graph,          \* adjacency: node -> sequence of neighbours
    source, dest, max_hops,
    stack,          \* sequence of [node, path]; the top is the last element
    emitted,        \* the paths yielded so far, in order
    \* ---- one request
    handler,        \* "optimize" | "api_optimize" | "none"
    origin, destination, capacity, speed, deadline, fuel_price,
    overrides_raw,  \* form field `overrides` (characters)
    overrides,      \* mapping: characters of a code -> handling cost
    scored,         \* info of every enumerated path, in enumeration order
    candidates,     \* the list built by the candidate loop
    candidates_sorted,
    best,
    status,         \* HTTP status of the response, 0 before it is sent
    enum_calls      \* number of calls of enumerate_simple_paths

enumVars == <<graph, source, dest, max_hops, stack, emitted>>
reqVars  == <<handler, origin, destination, capacity, speed, deadline,
              fuel_price, overrides_raw, overrides, scored, candidates,
              candidates_sorted, best, status, enum_calls>>
vars     == <<pc, enumVars, reqVars>>

Range(s) == {s[i] : i \in 1..Len(s)}

(***************************************************************************)
(* Bounds of the direct calls of enumerate_simple_paths.                   *)
(***************************************************************************)
MaxHops == 4

TestNodes == {"P1", "P2", "P3"}

\* adjacency lists over TestNodes without a repeated entry, in any order
NbrLists ==
    {s \in UNION {[1..n -> TestNodes] : n \in 0..Cardinality(TestNodes)} :
        \A i, j \in 1..Len(s) : i # j => s[i] # s[j]}

\* every graph whose keys are some of TestNodes: a node may be no key at all,
\* and a node that is no key may still be listed as a neighbour
TestGraphs == UNION {[K -> NbrLists] : K \in SUBSET TestNodes}

(***************************************************************************)
(* enumerate_simple_paths                                                  *)
(***************************************************************************)
\* graph.get(node, [])
GraphGet(g, node) == IF node \in DOMAIN g THEN g[node] ELSE <<>>

\* a hop test that counts the nodes of the extended path instead of the edges
ExceedsHopsEarly(path, hops) == Len(path) + 1 > hops

\* len(path)-1 > max_hops
ExceedsHops(path, hops) == Len(path) - 1 > hops

\* a membership test that never finds the neighbour
InPathNever(nbr, path) == FALSE

\* nbr in path
InPath(nbr, path) == \E i \in 1..Len(path) : path[i] = nbr

\* new_path = path + [nbr]
NewPath(path, nbr) == Append(path, nbr)

\* an inverted destination test
IsDestInverted(nbr, d) == nbr # d

\* nbr == dest
IsDest(nbr, d) == nbr = d

\* stack.pop()
Pop(stk) == [top |-> stk[Len(stk)], rest |-> SubSeq(stk, 1, Len(stk) - 1)]

\* the for loop over the neighbours of the popped node, from index i on
RECURSIVE ForNbrs(_, _, _, _, _, _)
ForNbrs(nbrs, i, path, d, stk, out) ==
    IF i > Len(nbrs) THEN [stack |-> stk, emitted |-> out]
    ELSE LET nbr == nbrs[i] IN
         IF InPath(nbr, path) THEN ForNbrs(nbrs, i + 1, path, d, stk, out)
         ELSE LET new_path == NewPath(path, nbr) IN
              IF IsDest(nbr, d)
              THEN ForNbrs(nbrs, i + 1, path, d, stk, Append(out, new_path))
              ELSE ForNbrs(nbrs, i + 1, path, d,
                           Append(stk, [node |-> nbr, path |-> new_path]), out)

\* an iteration that reads the top, tests the hops and only then pops: the
\* `continue` of an over-long path leaves it on the stack
IterateNoPop(g, d, hops, stk, out) ==
    LET p == Pop(stk) IN
    IF ExceedsHops(p.top.path, hops)
    THEN [stack |-> stk, emitted |-> out]
    ELSE ForNbrs(GraphGet(g, p.top.node), 1, p.top.path, d, p.rest, out)

\* one iteration of `while stack:`
Iterate(g, d, hops, stk, out) ==
    LET p == Pop(stk) IN
    IF ExceedsHops(p.top.path, hops)
    THEN [stack |-> p.rest, emitted |-> out]
    ELSE ForNbrs(GraphGet(g, p.top.node), 1, p.top.path, d, p.rest, out)

\* stack = [(source, [source])]
InitStack(s) == <<[node |-> s, path |-> <<s>>]>>

\* the whole generator, run to exhaustion: list(enumerate_simple_paths(...))
RECURSIVE RunEnum(_, _, _, _, _)
RunEnum(g, d, hops, stk, out) ==
    IF stk = <<>> THEN out
    ELSE LET r == Iterate(g, d, hops, stk, out) IN
         RunEnum(g, d, hops, r.stack, r.emitted)

enumerate_simple_paths(g, s, d, hops) == RunEnum(g, d, hops, InitStack(s), <<>>)

(***************************************************************************)
(* Direct calls of enumerate_simple_paths, one loop iteration per step.    *)
(***************************************************************************)
NoRequest ==
    /\ handler = "none" /\ origin = "" /\ destination = ""
    /\ capacity = 0 /\ speed = 0 /\ deadline = 0 /\ fuel_price = 0
    /\ overrides_raw = <<>> /\ overrides = <<>>
    /\ scored = <<>> /\ candidates = <<>> /\ candidates_sorted = <<>>
    /\ best = <<>> /\ status = 0 /\ enum_calls = 1

\* TestGraphs is closed under renaming the nodes, so every call is, up to
\* the names, a call with source "P1"; dest ranges over all nodes, source
\* itself included.
InitEnum ==
    /\ pc = "run"
    /\ graph \in TestGraphs
    /\ source = "P1"
    /\ dest \in TestNodes
    /\ max_hops \in 0..MaxHops
    /\ stack = InitStack(source)
    /\ emitted = <<>>
    /\ NoRequest

EnumIterate ==
    /\ pc = "run"
    /\ stack # <<>>
    /\ LET r == Iterate(graph, dest, max_hops, stack, emitted) IN
        /\ stack' = r.stack
        /\ emitted' = r.emitted
    /\ UNCHANGED <<pc, graph, source, dest, max_hops, reqVars>>

EnumReturn ==
    /\ pc = "run"
    /\ stack = <<>>
    /\ pc' = "done"
    /\ UNCHANGED <<enumVars, reqVars>>

NextEnum == EnumIterate \/ EnumReturn

SpecEnum == InitEnum /\ [][NextEnum]_vars

\* the loop is sequential code: an enabled iteration is eventually executed
SpecEnumFair == SpecEnum /\ WF_vars(NextEnum)

(***************************************************************************)
(* Properties of enumerate_simple_paths (SpecEnum, SpecEnumFair)           *)
(***************************************************************************)
Distinct(p) == \A i, j \in 1..Len(p) : i # j => p[i] # p[j]

\* b is listed among the neighbours of a
Adjoins(g, a, b) == b \in Range(GraphGet(g, a))

\* d is listed in some adjacency list of g
Listed(g, d) == \E a \in DOMAIN g : Adjoins(g, a, d)

HasCycle(g) == \E a, b \in DOMAIN g : a # b /\ Adjoins(g, a, b) /\ Adjoins(g, b, a)

\* the simple paths of g from s to d with 1..hops edges, defined from the
\* adjacency relation alone
SimplePaths(g, s, d, hops) ==
    {p \in UNION {[1..n -> TestNodes] : n \in 2..Cardinality(TestNodes)} :
        /\ Len(p) - 1 <= hops
        /\ p[1] = s
        /\ p[Len(p)] = d
        /\ Distinct(p)
        /\ \A i \in 1..(Len(p) - 1) : Adjoins(g, p[i], p[i + 1])}

\* C1: every emitted path has at most max_hops edges.
C1_HopLimit == \A i \in 1..Len(emitted) : Len(emitted[i]) - 1 <= max_hops

\* C2: when the enumeration has finished, every simple path from source to
\* dest with at least one and at most max_hops edges has been emitted.
C2_Complete ==
    pc = "done" =>
        \A p \in SimplePaths(graph, source, dest, max_hops) : p \in Range(emitted)

\* C2 witness: a finished enumeration that had two or more such paths to find,
\* one of them with exactly max_hops = 2 edges.
C2_Witness ==
    /\ pc = "done"
    /\ max_hops = 2
    /\ Cardinality(SimplePaths(graph, source, dest, max_hops)) >= 2
    /\ \E p \in SimplePaths(graph, source, dest, max_hops) : Len(p) = 3

\* C3: every emitted path and every path on the frontier stack contains
\* each node at most once.
C3_Simple ==
    /\ \A i \in 1..Len(emitted) : Distinct(emitted[i])
    /\ \A i \in 1..Len(stack) : Distinct(stack[i].path)

\* C3 witness: a three-node path is on the stack or emitted, in a graph where
\* its last node lists a node of the path as a neighbour (the membership test
\* has a repetition to refuse).
C3_Witness ==
    \E p \in Range(emitted) \cup {stack[i].path : i \in 1..Len(stack)} :
        /\ Len(p) = 3
        /\ Adjoins(graph, p[3], p[1])
        /\ Adjoins(graph, p[2], p[1])

\* C8: the traversal terminates: the frontier stack eventually becomes empty.
C8_Terminates == <>(stack = <<>>)

\* C8 witness: a traversal of a graph with a cycle, with max_hops larger than
\* the number of nodes, that has run to its end.
C8_Witness ==
    /\ pc = "done"
    /\ stack = <<>>
    /\ HasCycle(graph)
    /\ max_hops > Cardinality(TestNodes)
    /\ emitted # <<>>

\* C10 as stated: if source or dest is not a key of the graph, nothing is
\* emitted.
C10_NotAKey ==
    (source \notin DOMAIN graph \/ dest \notin DOMAIN graph) => emitted = <<>>

\* C10 as amended: if source is not a key of the graph, or dest is listed in
\* no adjacency list of the graph, nothing is ever emitted.
C10_Absent ==
    (source \notin DOMAIN graph \/ ~Listed(graph, dest)) => emitted = <<>>

\* C10 witness: a finished traversal from a source with neighbours towards a
\* dest that no adjacency list names, and one from a source that is no key.
C10_Witness ==
    /\ pc = "done"
    /\ \/ /\ source \in DOMAIN graph /\ graph[source] # <<>>
          /\ ~Listed(graph, dest) /\ max_hops >= 1
       \/ /\ source \notin DOMAIN graph /\ Listed(graph, dest)


(***************************************************************************)
(* Static configuration                                                    *)
(***************************************************************************)
\* the keys of PORTS
PORTS == {"IDX", "HKG", "SIN", "CNS", "SHA", "PTY", "LAX", "DXB"}

ADJ ==
    [IDX |-> <<"HKG", "SHA">>,
     HKG |-> <<"IDX", "SIN", "SHA", "DXB">>,
     SIN |-> <<"HKG", "SHA", "PTY">>,
     SHA |-> <<"IDX", "HKG", "SIN", "DXB">>,
     PTY |-> <<"SIN", "LAX">>,
     LAX |-> <<"PTY", "DXB">>,
     DXB |-> <<"HKG", "SHA", "LAX">>,
     CNS |-> <<"HKG", "SHA">>]

FUEL_PRICE_PER_KM == 12
BASE_HANDLING_COST == 500
DEFAULT_VESSEL_SPEED_KMH == 20
DEFAULT_MAX_HOPS == 6

\* haversine_km over the coordinates of PORTS, in whole kilometres; the
\* function is symmetric, so the table is keyed by the unordered pair
HaversineTable ==
    ({"IDX", "HKG"} :> 2068) @@ ({"IDX", "SIN"} :> 4648) @@
    ({"IDX", "CNS"} :> 2047) @@ ({"IDX", "SHA"} :> 842) @@
    ({"IDX", "PTY"} :> 14175) @@ ({"IDX", "LAX"} :> 9634) @@
    ({"IDX", "DXB"} :> 6751) @@ ({"HKG", "SIN"} :> 2586) @@
    ({"HKG", "CNS"} :> 129) @@ ({"HKG", "SHA"} :> 1227) @@
    ({"HKG", "PTY"} :> 16228) @@ ({"HKG", "LAX"} :> 11670) @@
    ({"HKG", "DXB"} :> 5944) @@ ({"SIN", "CNS"} :> 2625) @@
    ({"SIN", "SHA"} :> 3806) @@ ({"SIN", "PTY"} :> 18808) @@
    ({"SIN", "LAX"} :> 14137) @@ ({"SIN", "DXB"} :> 5830) @@
    ({"CNS", "SHA"} :> 1214) @@ ({"CNS", "PTY"} :> 16185) @@
    ({"CNS", "LAX"} :> 11668) @@ ({"CNS", "DXB"} :> 5830) @@
    ({"SHA", "PTY"} :> 15016) @@ ({"SHA", "LAX"} :> 10455) @@
    ({"SHA", "DXB"} :> 6415) @@ ({"PTY", "LAX"} :> 4820) @@
    ({"PTY", "DXB"} :> 13823) @@ ({"LAX", "DXB"} :> 13421)

\* compute_edge_info(a, b)['distance_km']
compute_edge_info(a, b) == IF a = b THEN 0 ELSE HaversineTable[{a, b}]

\* key = tuple(sorted((u, v))): one key for both orders of the pair
EdgeKey(a, b) == {a, b}

\* the precomputed EDGES: one entry per pair that ADJ lists, in either order
EDGES ==
    [k \in UNION {{EdgeKey(u, v) : v \in Range(ADJ[u])} : u \in DOMAIN ADJ}
        |-> LET u == CHOOSE x \in k : TRUE
                v == CHOOSE y \in k \ {u} : TRUE
            IN compute_edge_info(u, v)]

(***************************************************************************)
(* Fixed-point arithmetic and characters                                   *)
(***************************************************************************)
\* n / d rounded to the nearest integer, ties to even (Python's round)
RoundDiv(n, d) ==
    LET q == n \div d
        r == n % d
    IN IF 2 * r < d THEN q
       ELSE IF 2 * r > d THEN q + 1
       ELSE IF q % 2 = 0 THEN q ELSE q + 1

Max(a, b) == IF a >= b THEN a ELSE b

LowerCase == <<"a", "b", "c", "d", "e", "f", "g", "h", "i", "j", "k", "l", "m",
               "n", "o", "p", "q", "r", "s", "t", "u", "v", "w", "x", "y", "z">>
UpperCase == <<"A", "B", "C", "D", "E", "F", "G", "H", "I", "J", "K", "L", "M",
               "N", "O", "P", "Q", "R", "S", "T", "U", "V", "W", "X", "Y", "Z">>
Digits    == <<"0", "1", "2", "3", "4", "5", "6", "7", "8", "9">>

\* str.upper()
Upper(str) ==
    [i \in 1..Len(str) |->
        IF \E n \in 1..26 : LowerCase[n] = str[i]
        THEN UpperCase[CHOOSE n \in 1..26 : LowerCase[n] = str[i]]
        ELSE str[i]]

\* str.strip(): leading and trailing blanks removed
RECURSIVE Strip(_)
Strip(str) ==
    IF str = <<>> THEN str
    ELSE IF Head(str) = " " THEN Strip(Tail(str))
    ELSE IF str[Len(str)] = " " THEN Strip(SubSeq(str, 1, Len(str) - 1))
    ELSE str

\* str.split(sep): the pieces between the separators, empty pieces included
RECURSIVE SplitFrom(_, _, _, _)
SplitFrom(str, sep, i, piece) ==
    IF i > Len(str) THEN <<piece>>
    ELSE IF str[i] = sep THEN <<piece>> \o SplitFrom(str, sep, i + 1, <<>>)
    ELSE SplitFrom(str, sep, i + 1, Append(piece, str[i]))

Split(str, sep) == SplitFrom(str, sep, 1, <<>>)

IsDigit(c) == \E n \in 1..10 : Digits[n] = c

\* whether float(v) succeeds, for v made of decimal digits, letters, blanks
\* and colons: float() strips blanks and then needs a literal; of those
\* characters only a non-empty run of digits is one (the literals "inf",
\* "nan" and "infinity" and exponents are left out of the inputs)
IsFloat(v) ==
    LET t == Strip(v) IN t # <<>> /\ \A i \in 1..Len(t) : IsDigit(t[i])

\* float(v) of a run of digits
RECURSIVE DigitsValue(_)
DigitsValue(t) ==
    IF t = <<>> THEN 0
    ELSE 10 * DigitsValue(SubSeq(t, 1, Len(t) - 1))
         + (CHOOSE n \in 1..10 : Digits[n] = t[Len(t)]) - 1

Float(v) == DigitsValue(Strip(v))

\* the characters of a port code
Chars(code) ==
    CASE code = "IDX" -> <<"I", "D", "X">>
      [] code = "HKG" -> <<"H", "K", "G">>
      [] code = "SIN" -> <<"S", "I", "N">>
      [] code = "CNS" -> <<"C", "N", "S">>
      [] code = "SHA" -> <<"S", "H", "A">>
      [] code = "PTY" -> <<"P", "T", "Y">>
      [] code = "LAX" -> <<"L", "A", "X">>
      [] code = "DXB" -> <<"D", "X", "B">>
      [] OTHER        -> <<"X", "X", "X">>

(***************************************************************************)
(* path_cost_and_time                                                      *)
(***************************************************************************)
\* port_handling_overrides.get(node, BASE_HANDLING_COST)
Handling(ov, node) ==
    IF Chars(node) \in DOMAIN ov THEN ov[Chars(node)] ELSE BASE_HANDLING_COST

\* the first loop: the handling costs of all nodes of the path
RECURSIVE HandlingSum(_, _)
HandlingSum(path, ov) ==
    IF path = <<>> THEN 0
    ELSE Handling(ov, Head(path)) + HandlingSum(Tail(path), ov)

\* info['distance_km'] of edge (a, b): EDGES.get(key), else computed directly
EdgeDistance(a, b) ==
    IF EdgeKey(a, b) \in DOMAIN EDGES THEN EDGES[EdgeKey(a, b)]
    ELSE compute_edge_info(a, b)

\* the sum of the edge distances of the path
RECURSIVE PathDistance(_)
PathDistance(path) ==
    IF Len(path) < 2 THEN 0
    ELSE EdgeDistance(path[1], path[2]) + PathDistance(Tail(path))

\* capacity_factor = max(0.5, vessel_capacity / 1000.0), in thousandths
CapacityFactor(vessel_capacity) == Max(500, vessel_capacity)

\* {'cost': round(total_cost, 2), 'time_h': round(total_time, 2)} in
\* hundredths.  Every edge has the same fuel price and capacity factor, so the
\* sum of the edge costs is the path distance times both; the handling costs
\* are whole units and do not take part in the rounding.
path_cost_and_time(path, vessel_capacity, ov, speed_kmh, fuel) ==
    [cost   |-> 100 * HandlingSum(path, ov)
                + RoundDiv(PathDistance(path) * fuel * CapacityFactor(vessel_capacity),
                           1000),
     time_h |-> RoundDiv(100 * PathDistance(path), speed_kmh)]

(***************************************************************************)
(* The request handlers                                                    *)
(***************************************************************************)
None == [none |-> TRUE]

\* overrides[k.strip().upper()] = float(v)
SetOverride(ov, k, v) == (Upper(Strip(k)) :> Float(v)) @@ ov

\* a token of the overrides string that the loop body accepts:
\* k, v = part.split(':') unpacks two pieces and float(v) parses
Parses(part) ==
    LET kv == Split(part, ":") IN Len(kv) = 2 /\ IsFloat(kv[2])

\* a loop over the tokens that drops the one that raised and goes on
RECURSIVE ParseSkipping(_, _, _)
ParseSkipping(parts, i, ov) ==
    IF i > Len(parts) THEN ov
    ELSE IF ~Parses(parts[i]) THEN ParseSkipping(parts, i + 1, ov)
    ELSE LET kv == Split(parts[i], ":") IN
         ParseSkipping(parts, i + 1, SetOverride(ov, kv[1], kv[2]))

\* the try block of optimize: the for loop is inside the try, so the first
\* token that raises ends the loop and the except clause passes
RECURSIVE ParseParts(_, _, _)
ParseParts(parts, i, ov) ==
    IF i > Len(parts) THEN ov
    ELSE IF ~Parses(parts[i]) THEN ov
    ELSE LET kv == Split(parts[i], ":") IN
         ParseParts(parts, i + 1, SetOverride(ov, kv[1], kv[2]))

\* overrides_raw = request.form.get('overrides','').strip() and the parse
ParseOverrides(raw) ==
    LET stripped == Strip(raw) IN
    IF stripped = <<>> THEN <<>>
    ELSE ParseParts(Split(stripped, ","), 1, <<>>)

\* a deadline test that leaves out a path arriving exactly at the deadline
MeetsDeadlineStrict(time_h, dl) == time_h < dl

\* info['time_h'] <= deadline
MeetsDeadline(time_h, dl) == time_h <= dl

\* info of every enumerated path, with the path
ScoreAll(paths, cap, ov, spd, fuel) ==
    [i \in 1..Len(paths) |->
        LET info == path_cost_and_time(paths[i], cap, ov, spd, fuel) IN
        [path |-> paths[i], cost |-> info.cost, time_h |-> info.time_h]]

\* the candidate loop: the scored paths that meet the deadline, in order
RECURSIVE CandidateLoop(_, _)
CandidateLoop(infos, dl) ==
    IF infos = <<>> THEN <<>>
    ELSE IF MeetsDeadline(Head(infos).time_h, dl)
         THEN <<Head(infos)>> \o CandidateLoop(Tail(infos), dl)
         ELSE CandidateLoop(Tail(infos), dl)

\* c placed after every element of the sorted list whose cost is <= c.cost
RECURSIVE InsertByCost(_, _)
InsertByCost(c, srt) ==
    IF srt = <<>> THEN <<c>>
    ELSE IF srt[Len(srt)].cost <= c.cost THEN Append(srt, c)
    ELSE Append(InsertByCost(c, SubSeq(srt, 1, Len(srt) - 1)), srt[Len(srt)])

\* a candidate list left in enumeration order
Unsorted(cands) == cands

\* sorted(candidates, key=lambda x: x['cost']): ascending and stable
RECURSIVE Sorted(_)
Sorted(cands) ==
    IF cands = <<>> THEN <<>>
    ELSE InsertByCost(cands[Len(cands)], Sorted(SubSeq(cands, 1, Len(cands) - 1)))

\* candidates_sorted[0] if candidates_sorted else None
Best(srt) == IF srt # <<>> THEN srt[1] ELSE None

\* lines 227-237 and 261-267: enumerate, score, filter, sort, select
Select(ov) ==
    /\ graph' = ADJ
    /\ source' = origin
    /\ dest' = destination
    /\ max_hops' = DEFAULT_MAX_HOPS
    /\ stack' = <<>>
    /\ emitted' = enumerate_simple_paths(ADJ, origin, destination, DEFAULT_MAX_HOPS)
    /\ enum_calls' = enum_calls + 1
    /\ scored' = ScoreAll(emitted', capacity, ov, speed, fuel_price)
    /\ candidates' = CandidateLoop(scored', deadline)
    /\ candidates_sorted' = Sorted(candidates')
    /\ best' = Best(candidates_sorted')
    /\ status' = 200

optimize ==
    /\ pc = "start"
    /\ handler = "optimize"
    /\ overrides' = ParseOverrides(overrides_raw)
    /\ Select(overrides')
    /\ pc' = "done"
    /\ UNCHANGED <<handler, origin, destination, capacity, speed, deadline,
                   fuel_price, overrides_raw>>

api_optimize ==
    /\ pc = "start"
    /\ handler = "api_optimize"
    /\ IF origin \notin PORTS \/ destination \notin PORTS
       THEN /\ status' = 400
            /\ UNCHANGED <<enumVars, scored, candidates, candidates_sorted,
                           best, enum_calls>>
       ELSE Select(overrides)
    /\ pc' = "done"
    /\ UNCHANGED <<handler, origin, destination, capacity, speed, deadline,
                   fuel_price, overrides_raw, overrides>>

(***************************************************************************)
(* Requests                                                                *)
(***************************************************************************)
MaxTokens == 2

\* "XXX" stands for any code that is no key of PORTS
Origins      == {"SIN", "CNS", "XXX"}
Destinations == {"LAX", "DXB", "XXX"}
Capacities   == {400, 1000}
Speeds       == {DEFAULT_VESSEL_SPEED_KMH, 25}
\* 1 h, 1181.40 h (the time of SIN, PTY, LAX at 20 km/h) and 9000 h
Deadlines    == {100, 118140, 900000}

\* tokens of the overrides field: "HKG:999", "pty:7", " SHA: 50",
\* and the malformed "DXB" (no colon), "LAX:x" (no number), "" (empty)
Tokens ==
    {<<"H", "K", "G", ":", "9", "9", "9">>,
     <<"p", "t", "y", ":", "7">>,
     <<" ", "S", "H", "A", ":", " ", "5", "0">>,
     <<"D", "X", "B">>,
     <<"L", "A", "X", ":", "x">>,
     <<>>}

\* ",".join(tokens)
RECURSIVE Join(_)
Join(tokens) ==
    IF tokens = <<>> THEN <<>>
    ELSE IF Len(tokens) = 1 THEN tokens[1]
    ELSE tokens[1] \o <<",">> \o Join(Tail(tokens))

RawOverrides ==
    {Join(ts) : ts \in UNION {[1..n -> Tokens] : n \in 0..MaxTokens}}

\* the `overrides` object of a JSON request
JsonOverrides ==
    {<<>>,
     (<<"H", "K", "G">> :> 999),
     (<<"P", "T", "Y">> :> 7) @@ (<<"S", "H", "A">> :> 50)}

Init ==
    /\ pc = "start"
    /\ handler \in {"optimize", "api_optimize"}
    /\ origin \in Origins
    /\ destination \in Destinations
    /\ capacity \in Capacities
    /\ speed \in Speeds
    /\ deadline \in Deadlines
    /\ fuel_price = FUEL_PRICE_PER_KM
    /\ IF handler = "optimize"
       THEN overrides_raw \in RawOverrides /\ overrides = <<>>
       ELSE overrides_raw = <<>> /\ overrides \in JsonOverrides
    /\ graph = <<>> /\ source = "" /\ dest = "" /\ max_hops = 0
    /\ stack = <<>> /\ emitted = <<>>
    /\ scored = <<>> /\ candidates = <<>> /\ candidates_sorted = <<>>
    /\ best = None /\ status = 0 /\ enum_calls = 0

Next == optimize \/ api_optimize

Spec == Init /\ [][Next]_vars

(***************************************************************************)
(* Properties of the request handlers (Spec)                               *)
(***************************************************************************)
Retained(p) == \E j \in 1..Len(candidates) : candidates[j].path = p

\* C4: after the candidate loop, an enumerated path is in the candidate list
\* if and only if its scored time_h is <= deadline.
C4_DeadlineFilter ==
    (pc = "done" /\ status = 200) =>
        /\ Len(scored) = Len(emitted)
        /\ \A i \in 1..Len(scored) :
            /\ scored[i].path = emitted[i]
            /\ Retained(scored[i].path) <=> scored[i].time_h <= deadline
        /\ \A j \in 1..Len(candidates) :
            /\ candidates[j] \in Range(scored)
            /\ candidates[j].time_h <= deadline

\* C4 witness: a finished request that kept a path arriving exactly at the
\* deadline, kept an earlier one and left a later one out.
C4_Witness ==
    /\ pc = "done"
    /\ \E i, j, k \in 1..Len(scored) :
        /\ scored[i].time_h = deadline /\ Retained(scored[i].path)
        /\ scored[j].time_h < deadline /\ Retained(scored[j].path)
        /\ scored[k].time_h > deadline /\ ~Retained(scored[k].path)

\* C5: the returned best is a feasible candidate of minimum cost, and is
\* absent when there is no feasible candidate.
C5_Minimum ==
    (pc = "done" /\ status = 200) =>
        IF candidates = <<>> THEN best = None
        ELSE /\ best \in Range(candidates)
             /\ \A j \in 1..Len(candidates) : best.cost <= candidates[j].cost

\* C5 witness: a finished request with several feasible candidates whose
\* cheapest was not the first one enumerated.
C5_Witness ==
    /\ pc = "done"
    /\ Len(candidates) >= 3
    /\ best # candidates[1]
    /\ best.cost < candidates[1].cost

\* C6: a request whose origin or destination is no key of PORTS ends in a
\* client-input error and never calls enumerate_simple_paths.
C6_InvalidPorts ==
    (pc = "done" /\ (origin \notin PORTS \/ destination \notin PORTS)) =>
        (status = 400 /\ enum_calls = 0)

\* C7: in the form handler every well-formed token of the overrides string,
\* before or after a malformed one, is in the overrides mapping used for
\* scoring, and the request is answered.
C7_LenientOverrides ==
    (pc = "done" /\ handler = "optimize") =>
        /\ status = 200
        /\ overrides = ParseSkipping(Split(Strip(overrides_raw), ","), 1, <<>>)

\* C9: the adjacency table handed to the enumeration, ADJ, is symmetric: if
\* B is listed among the neighbours of A then A is listed among those of B.
C9_Symmetric ==
    \A a \in DOMAIN graph : \A b \in Range(graph[a]) : Adjoins(graph, b, a)

====
